---- MODULE Spec2Model ----
(***************************************************************************)
(* Model of MiddleFingerDetector (src/main.py): the platform shutdown      *)
(* command resolver, the gesture classifier, the detection handler and the *)
(* capture loop of run().  Every call the program makes on a collaborator  *)
(* (camera, hand model, drawing, window, console, os.system) is appended   *)
(* to `events` in program order, so the properties below are statements    *)
(* about the observable call trace of one run.                             *)
(***************************************************************************)
EXTENDS Integers, Sequences, FiniteSets, TLC

\* -------------------------------------------------------------- bounds
\* Iterations of the capture loop that may acquire a frame in one run.
MaxFrames == 2
\* Landmark y coordinates are drawn from the grid 0..MaxY (smaller = higher).
MaxY == 1

\* ----------------------------------------------------- program constants
\* Hands(max_num_hands=2): the hand model returns at most this many hands.
MaxNumHands == 2
\* Key code of ESC compared with cv2.waitKey(1) & 0xFF.
EscKey == 27
\* The byte mask 0xFF applied to the key code, as a modulus (x & 0xFF = x % 256).
KeyMask == 256
\* Highest landmark index the classifier reads (the pinky tip).
LastLandmark == 20

\* The absent shutdown command (Python None).
None == "None"

VARIABLES
    system,            \* platform.system(), read once by __init__
    test_mode,         \* self.test_mode
    shutdown_command,  \* self.shutdown_command
    pc,                \* position of run(): loop, read, process, hands, show, cleanup, done
    nframes,           \* iterations entered so far
    hands,             \* results.multi_hand_landmarks of the current frame
    h,                 \* index in `hands` of the hand the for loop is at
    events,            \* every external call made so far, in program order
    clsInput,          \* classifier checked in isolation: its argument
    clsDone,           \*   whether it has been applied
    clsResult          \*   its return value

vars == <<system, test_mode, shutdown_command, pc, nframes, hands, h, events,
          clsInput, clsDone, clsResult>>

loopVars == <<system, test_mode, shutdown_command, pc, nframes, hands, h, events>>
clsVars == <<clsInput, clsDone, clsResult>>

\* ------------------------------------------------------------ resolver
\* Values platform.system() is given here: the three recognised names, an
\* unrecognised one, the empty string and case-mismatched variants.
Platforms == {"Windows", "Linux", "Darwin", "FreeBSD", "", "windows", "LINUX"}

\* A resolver that compares the platform name without regard to case.
GetShutdownCommand_CaseFold(sys) ==
    IF sys \in {"Windows", "windows"} THEN "shutdown /s /t 1"
    ELSE IF sys \in {"Linux", "LINUX"} THEN "shutdown -h now"
    ELSE IF sys = "Darwin" THEN "sudo shutdown -h now"
    ELSE None

\* _get_shutdown_command
GetShutdownCommand(sys) ==
    IF sys = "Windows" THEN "shutdown /s /t 1"
    ELSE IF sys = "Linux" THEN "shutdown -h now"
    ELSE IF sys = "Darwin" THEN "sudo shutdown -h now"
    ELSE None

\* ---------------------------------------------------------- classifier
LandmarkIdx == 0 .. LastLandmark
Point(yy) == [x |-> 0, y |-> yy]

\* tips = [4, 8, 12, 16, 20], indexed from 0 as in the source
tips == [i \in 0 .. 4 |-> 4 * (i + 1)]

\* A comparison that also counts a tip level with its joint as up.
is_up_NonStrict(landmarks, i) == landmarks[tips[i]].y <= landmarks[tips[i] - 2].y

\* is_up(i): tip strictly above the joint two indices below it
is_up(landmarks, i) == landmarks[tips[i]].y < landmarks[tips[i] - 2].y

\* _is_middle_finger_only_up
IsMiddleFingerOnlyUp(landmarks) ==
    /\ ~is_up(landmarks, 1)
    /\ is_up(landmarks, 2)
    /\ ~is_up(landmarks, 3)
    /\ ~is_up(landmarks, 4)

\* Hands the landmark source returns in the capture loop.  Finger i in `ups`
\* has its tip above its joint; any other finger has its tip below the joint,
\* or level with it when `level` is set.
MkHand(ups, level) ==
    [j \in LandmarkIdx |->
        IF \E i \in 0 .. 4 : j = tips[i] /\ i \in ups THEN Point(0)
        ELSE IF \E i \in 0 .. 4 : j = tips[i] - 2 /\ i \in ups THEN Point(MaxY)
        ELSE IF \E i \in 0 .. 4 : j = tips[i] THEN Point(MaxY)
        ELSE IF \E i \in 0 .. 4 : j = tips[i] - 2 THEN Point(IF level THEN MaxY ELSE 0)
        ELSE Point(0)]

SampleHands == {MkHand({2}, TRUE), MkHand({}, FALSE), MkHand({1, 2}, FALSE)}

\* results.multi_hand_landmarks: no hand, or up to max_num_hands of them
Frames == UNION {[1 .. n -> SampleHands] : n \in 0 .. MaxNumHands}

\* Return values of cv2.waitKey(1): no key, ESC, ESC with high bits set, 'q'.
Keys == {-1, EscKey, EscKey + KeyMask, 113}

\* -------------------------------------------------------------- events
Ev(kind, val) == [k |-> kind, v |-> val]

PrintInit(tm)    == Ev("print", IF tm THEN "INFO initialized TEST MODE"
                                      ELSE "INFO initialized LIVE MODE")
PrintStarted     == Ev("print", "INFO Video stream started")
PrintReadError   == Ev("print", "ERROR Failed to read frame from camera")
PrintEventTest   == Ev("print", "EVENT Middle finger detected (test mode)")
PrintEventLive   == Ev("print", "EVENT Middle finger detected - shutting down")
PrintUnsupported == Ev("print", "ERROR Unsupported OS - cannot shutdown")
PrintEsc         == Ev("print", "INFO ESC pressed - exiting")
PrintStopped     == Ev("print", "INFO Detector stopped cleanly")
OsSystem(cmd)    == Ev("os.system", cmd)
CapRelease       == Ev("cap.release", "")
DestroyWindows   == Ev("cv2.destroyAllWindows", "")
CallHandler      == Ev("call", "_handle_middle_finger_detected")
BoolStr(b)       == IF b THEN "true" ELSE "false"

\* ------------------------------------------------------------- handler
\* A handler that runs the shutdown command whatever the mode.
HandleMiddleFingerDetected_IgnoresMode(tm, cmd) ==
    IF cmd # None THEN <<PrintEventLive, OsSystem(cmd)>>
    ELSE <<PrintEventLive, PrintUnsupported>>

\* A handler that runs os.system even when no command was resolved.
HandleMiddleFingerDetected_NoGuard(tm, cmd) ==
    IF tm THEN <<PrintEventTest>>
    ELSE <<PrintEventLive, OsSystem(cmd)>>

\* _handle_middle_finger_detected: the calls it makes, in order
HandleMiddleFingerDetected(tm, cmd) ==
    IF tm THEN <<PrintEventTest>>
    ELSE IF cmd # None THEN <<PrintEventLive, OsSystem(cmd)>>
    ELSE <<PrintEventLive, PrintUnsupported>>

\* ---------------------------------------------------------------- run()
Init ==
    /\ system \in Platforms
    /\ test_mode \in BOOLEAN
    /\ shutdown_command = GetShutdownCommand(system)
    /\ pc = "start"
    /\ nframes = 0
    /\ hands = <<>>
    /\ h = 1
    /\ events = <<PrintInit(test_mode)>>
    /\ clsInput = MkHand({}, FALSE)
    /\ clsDone = FALSE
    /\ clsResult = FALSE

\* print("[INFO] Video stream started ...")
Start ==
    /\ pc = "start"
    /\ events' = Append(events, PrintStarted)
    /\ pc' = "loop"
    /\ UNCHANGED <<system, test_mode, shutdown_command, nframes, hands, h>>
    /\ UNCHANGED clsVars

\* while self.cap.isOpened(): the camera's answer is an input of each test.
\* A run enters the loop body at most MaxFrames times.
LoopCheck ==
    /\ pc = "loop"
    /\ \E opened \in BOOLEAN :
        /\ opened => nframes < MaxFrames
        /\ events' = Append(events, Ev("cap.isOpened", BoolStr(opened)))
        /\ pc' = IF opened THEN "read" ELSE "cleanup"
        /\ nframes' = IF opened THEN nframes + 1 ELSE nframes
    /\ UNCHANGED <<system, test_mode, shutdown_command, hands, h>>
    /\ UNCHANGED clsVars

\* A read failure that is logged but does not leave the loop.
ReadFrame_Retry ==
    /\ pc = "read"
    /\ \E ret \in BOOLEAN :
        /\ events' = events \o <<Ev("cap.read", BoolStr(ret))>>
                            \o (IF ret THEN <<>> ELSE <<PrintReadError>>)
        /\ pc' = IF ret THEN "process" ELSE "loop"
    /\ UNCHANGED <<system, test_mode, shutdown_command, nframes, hands, h>>
    /\ UNCHANGED clsVars

\* ret, frame = self.cap.read(); if not ret: print error; break
ReadFrame ==
    /\ pc = "read"
    /\ \E ret \in BOOLEAN :
        /\ events' = events \o <<Ev("cap.read", BoolStr(ret))>>
                            \o (IF ret THEN <<>> ELSE <<PrintReadError>>)
        /\ pc' = IF ret THEN "process" ELSE "cleanup"
    /\ UNCHANGED <<system, test_mode, shutdown_command, nframes, hands, h>>
    /\ UNCHANGED clsVars

\* flip, cvtColor, self.hands.process(rgb); if results.multi_hand_landmarks: for ...
ProcessFrame ==
    /\ pc = "process"
    /\ \E hs \in Frames :
        /\ hands' = hs
        /\ h' = 1
        /\ events' = Append(events, Ev("hands.process", ToString(Len(hs))))
        /\ pc' = IF hs = <<>> THEN "show" ELSE "hands"
    /\ UNCHANGED <<system, test_mode, shutdown_command, nframes>>
    /\ UNCHANGED clsVars

\* One pass of the for loop body for hand h, given the classifier's answer
\* `hit`, whether run() returns after the dispatch (`stop`) and the calls it
\* makes before returning (`tail`).
HandStep(hit, stop, tail) ==
    /\ events' = events
                 \o <<Ev("draw_landmarks", ToString(h)), Ev("classify", BoolStr(hit))>>
                 \o (IF hit
                     THEN <<CallHandler>> \o HandleMiddleFingerDetected(test_mode, shutdown_command)
                     ELSE <<>>)
                 \o (IF stop THEN tail ELSE <<>>)
    /\ pc' = IF stop THEN "done" ELSE IF h < Len(hands) THEN "hands" ELSE "show"
    /\ h' = IF stop THEN h ELSE h + 1
    /\ UNCHANGED <<system, test_mode, shutdown_command, nframes, hands>>
    /\ UNCHANGED clsVars

\* The live-mode return without releasing the camera.
ClassifyHand_NoRelease ==
    /\ pc = "hands"
    /\ LET hit == IsMiddleFingerOnlyUp(hands[h])
       IN  HandStep(hit, hit /\ ~test_mode, <<DestroyWindows>>)

\* The live-mode return taken only when a shutdown command was run.
ClassifyHand_StopOnlyIfIssued ==
    /\ pc = "hands"
    /\ LET hit == IsMiddleFingerOnlyUp(hands[h])
       IN  HandStep(hit, hit /\ ~test_mode /\ shutdown_command # None,
                    <<CapRelease, DestroyWindows>>)

\* A return after the dispatch in test mode as well.
ClassifyHand_StopInTestMode ==
    /\ pc = "hands"
    /\ LET hit == IsMiddleFingerOnlyUp(hands[h])
       IN  HandStep(hit, hit, <<CapRelease, DestroyWindows>>)

\* A live-mode detection that is dispatched without leaving the loop.
ClassifyHand_NoStop ==
    /\ pc = "hands"
    /\ LET hit == IsMiddleFingerOnlyUp(hands[h])
       IN  HandStep(hit, FALSE, <<>>)

\* for hand_landmarks in ...: draw_landmarks; if classifier: handler;
\* if not self.test_mode: release, destroyAllWindows, return
ClassifyHand ==
    /\ pc = "hands"
    /\ LET hit == IsMiddleFingerOnlyUp(hands[h])
       IN  HandStep(hit, hit /\ ~test_mode, <<CapRelease, DestroyWindows>>)

\* cv2.imshow; if cv2.waitKey(1) & 0xFF == 27: print; break
ShowFrame ==
    /\ pc = "show"
    /\ \E key \in Keys :
        LET esc == (key % KeyMask) = EscKey
        IN  /\ events' = events
                         \o <<Ev("cv2.imshow", ""), Ev("cv2.waitKey", ToString(key % KeyMask))>>
                         \o (IF esc THEN <<PrintEsc>> ELSE <<>>)
            /\ pc' = IF esc THEN "cleanup" ELSE "loop"
    /\ UNCHANGED <<system, test_mode, shutdown_command, nframes, hands, h>>
    /\ UNCHANGED clsVars

\* self.cap.release(); cv2.destroyAllWindows(); print stopped cleanly
Cleanup ==
    /\ pc = "cleanup"
    /\ events' = events \o <<CapRelease, DestroyWindows, PrintStopped>>
    /\ pc' = "done"
    /\ UNCHANGED <<system, test_mode, shutdown_command, nframes, hands, h>>
    /\ UNCHANGED clsVars

Next ==
    \/ Start
    \/ LoopCheck
    \/ ReadFrame
    \/ ProcessFrame
    \/ ClassifyHand
    \/ ShowFrame
    \/ Cleanup

Spec == Init /\ [][Next]_vars

\* ------------------------------------------- the classifier in isolation
\* Hands whose classifier-relevant points and thumb points range over the
\* whole grid; every other point is fixed.
VariedIdx == {2, 4, 6, 8, 10, 12, 14, 16, 18, 20}

AllHands ==
    {[j \in LandmarkIdx |-> Point(IF j \in VariedIdx THEN f[j] ELSE 0)] :
        f \in [VariedIdx -> 0 .. MaxY]}

InitClassify ==
    /\ clsInput \in AllHands
    /\ clsDone = FALSE
    /\ clsResult = FALSE
    /\ system = "Linux"
    /\ test_mode = TRUE
    /\ shutdown_command = GetShutdownCommand(system)
    /\ pc = "idle"
    /\ nframes = 0
    /\ hands = <<>>
    /\ h = 1
    /\ events = <<>>

\* One call of _is_middle_finger_only_up on the drawn hand.
Classify ==
    /\ ~clsDone
    /\ clsResult' = IsMiddleFingerOnlyUp(clsInput)
    /\ clsDone' = TRUE
    /\ UNCHANGED clsInput
    /\ UNCHANGED loopVars

NextClassify == Classify

SpecClassify == InitClassify /\ [][NextClassify]_vars

\* ------------------------------------------------- reading the call trace
CountOf(e)  == Cardinality({i \in DOMAIN events : events[i] = e})
CountKind(kind) == Cardinality({i \in DOMAIN events : events[i].k = kind})
Suffix(i)   == SubSeq(events, i + 1, Len(events))
ClassifyTrue == Ev("classify", "true")
ReadFailed  == Ev("cap.read", "false")
LiveReturn  == <<CapRelease, DestroyWindows>>
CleanStop   == <<CapRelease, DestroyWindows, PrintStopped>>
\* A key event whose masked code is ESC.
EscPressed  == Ev("cv2.waitKey", ToString(EscKey))

\* ------------------------------------------------------------------ C1
\* C1: for every run of the capture loop, in either mode, the camera handle
\* is released exactly once by the time run() returns: never twice at any
\* point of the run, never zero times once run() has returned, and never
\* while the loop is still running.
C1_ReleasedExactlyOnce ==
    /\ CountOf(CapRelease) <= 1
    /\ pc = "done" => CountOf(CapRelease) = 1
    /\ pc # "done" => CountOf(CapRelease) = 0

\* run() has returned through the live-mode detection path.
C1_Witness ==
    /\ pc = "done"
    /\ ~test_mode
    /\ CountOf(CallHandler) = 1
    /\ CountOf(CapRelease) = 1

\* ------------------------------------------------------------------ C2
\* C2: on every transition to STOPPED (frame-read failure, escape key or
\* live-mode detection) the camera and the display are released and a
\* clean-stop message is logged before run() returns.
C2_CleanStopOnEveryExit ==
    pc = "done" =>
        /\ CountOf(CapRelease) = 1
        /\ CountOf(DestroyWindows) = 1
        /\ CountOf(PrintStopped) = 1

\* ------------------------------------------------------------------ C3
\* C3: in live mode with a shutdown command present, an accepted hand is a
\* one-shot terminal trigger: the handler is called once in the whole run,
\* prints the detection and then runs the command, after which run()
\* releases the camera and returns; nothing else follows, so the remaining
\* hands are not classified and no further frame is read.
C3_LiveDetectionIsTerminal ==
    (~test_mode /\ shutdown_command # None) =>
        /\ CountOf(CallHandler) <= 1
        /\ CountOf(CallHandler) = CountOf(ClassifyTrue)
        /\ \A i \in DOMAIN events :
              events[i] = ClassifyTrue =>
                /\ Suffix(i) = <<CallHandler, PrintEventLive, OsSystem(shutdown_command)>>
                               \o LiveReturn
                /\ pc = "done"

\* The first of two hands was accepted in live mode on a supported platform.
C3_Witness ==
    /\ ~test_mode
    /\ shutdown_command # None
    /\ pc = "done"
    /\ Len(hands) = 2
    /\ h = 1
    /\ CountOf(OsSystem(shutdown_command)) = 1

\* ------------------------------------------------------------------ C4
\* C4: in test mode no OS command is ever executed, whether or not a
\* shutdown command was resolved: each call of the handler prints the
\* test-mode event and does nothing else.
C4_TestModeNeverShutsDown ==
    test_mode =>
        /\ CountKind("os.system") = 0
        /\ \A i \in DOMAIN events :
              events[i] = CallHandler =>
                /\ i + 1 <= Len(events)
                /\ events[i + 1] = PrintEventTest
                /\ i + 2 <= Len(events) =>
                      events[i + 2].k \in {"draw_landmarks", "cv2.imshow"}

\* The handler ran in test mode on a platform with a shutdown command.
C4_Witness ==
    /\ test_mode
    /\ shutdown_command # None
    /\ CountOf(CallHandler) >= 2

\* ------------------------------------------------------------------ C5
\* C5: in live mode with no shutdown command (unrecognised platform) the
\* handler prints the detection, then the unsupported-OS error, and no OS
\* command is ever executed.
C5_UnsupportedOsLogsError ==
    (~test_mode /\ shutdown_command = None) =>
        /\ CountKind("os.system") = 0
        /\ \A i \in DOMAIN events :
              events[i] = CallHandler =>
                /\ i + 2 <= Len(events)
                /\ events[i + 1] = PrintEventLive
                /\ events[i + 2] = PrintUnsupported

\* The handler ran in live mode on an unrecognised platform.
C5_Witness ==
    /\ ~test_mode
    /\ shutdown_command = None
    /\ CountOf(CallHandler) = 1
    /\ CountOf(PrintUnsupported) = 1

\* ------------------------------------------------------------------ C6
\* C6: a failed frame read, in any iteration, is followed by the error
\* message and then only by the release of the camera and the display and
\* the stop message: the hand model, the classifier and the handler are not
\* called in that iteration (the read directly follows the loop test) and no
\* other frame is read afterwards.
C6_ReadFailureStops ==
    \A i \in DOMAIN events :
        events[i] = ReadFailed =>
            /\ i > 1 /\ events[i - 1] = Ev("cap.isOpened", "true")
            /\ pc \in {"cleanup", "done"}
            /\ Suffix(i) = IF pc = "cleanup" THEN <<PrintReadError>>
                           ELSE <<PrintReadError>> \o CleanStop

\* run() has returned after the very first frame read failed.
C6_Witness ==
    /\ pc = "done"
    /\ nframes = 1
    /\ CountOf(ReadFailed) = 1
    /\ CountKind("hands.process") = 0

\* ----------------------------------------------------------------- C10
\* C10: in live mode with no shutdown command, an accepted hand still ends
\* the session: after the handler has printed the error without running any
\* OS command, run() releases the camera and the display and returns;
\* nothing follows, so the remaining hands, the frame display and the key
\* check of that iteration are skipped.
C10_LiveStopsWithoutDirective ==
    (~test_mode /\ shutdown_command = None) =>
        /\ CountKind("os.system") = 0
        /\ \A i \in DOMAIN events :
              events[i] = ClassifyTrue =>
                /\ Suffix(i) = <<CallHandler, PrintEventLive, PrintUnsupported>>
                               \o LiveReturn
                /\ pc = "done"
                /\ h <= Len(hands)

\* The first of two hands was accepted in live mode on an unrecognised
\* platform and run() has returned.
C10_Witness ==
    /\ ~test_mode
    /\ shutdown_command = None
    /\ pc = "done"
    /\ Len(hands) = 2
    /\ h = 1
    /\ CountOf(PrintUnsupported) = 1

\* ------------------------------------------------------------------ C7
\* Landmark indices the classifier's rule reads.
RuleIdx == {6, 8, 10, 12, 14, 16, 18, 20}

\* C7: the classifier returns true iff the middle tip (12) is strictly above
\* its joint (10) and the index (8/6), ring (16/14) and pinky (20/18) tips
\* are not strictly above theirs, a tip level with its joint counting as not
\* up; changing the thumb points (2 and 4), or any single point outside the
\* eight the rule reads, leaves the result unchanged; and a hand with more
\* than one of index, middle, ring, pinky up is rejected.
C7_ClassifierRule ==
    clsDone =>
        LET y(j) == clsInput[j].y
        IN  /\ clsResult = ( /\ y(12) < y(10)
                             /\ y(8) >= y(6)
                             /\ y(16) >= y(14)
                             /\ y(20) >= y(18) )
            /\ \A v2, v4 \in 0 .. MaxY :
                  IsMiddleFingerOnlyUp([clsInput EXCEPT ![2] = Point(v2), ![4] = Point(v4)])
                      = clsResult
            /\ \A j \in LandmarkIdx \ RuleIdx : \A v \in 0 .. MaxY :
                  IsMiddleFingerOnlyUp([clsInput EXCEPT ![j] = Point(v)]) = clsResult
            /\ Cardinality({t \in {8, 12, 16, 20} : y(t) < y(t - 2)}) > 1 => ~clsResult

\* An accepted hand whose index tip is level with its joint and whose thumb
\* is up.
C7_Witness ==
    /\ clsDone
    /\ clsResult
    /\ clsInput[8].y = clsInput[6].y
    /\ clsInput[4].y < clsInput[2].y

\* ------------------------------------------------------------------ C8
\* The platform names for which a shutdown command exists.
Recognised == {"Windows", "Linux", "Darwin"}

\* C8: the shutdown command held by the detector is present for exactly the
\* platform names "Windows", "Linux" and "Darwin" and absent for every other
\* name, the empty string and case-mismatched names included; it is computed
\* once at startup and no step of the run changes it.
C8_ResolverAndImmutability ==
    /\ [](/\ shutdown_command # None <=> system \in Recognised
          /\ system \in {"", "windows", "LINUX", "FreeBSD"} => shutdown_command = None)
    /\ [][shutdown_command' = shutdown_command /\ system' = system]_vars

\* A run on a case-mismatched platform name that dispatched a detection and
\* returned with the command still absent.
C8_Witness ==
    /\ system = "windows"
    /\ shutdown_command = None
    /\ ~test_mode
    /\ CountOf(CallHandler) = 1
    /\ pc = "done"

\* ------------------------------------------------------------------ C9
\* What one step of the loop body does in test mode: a hand is drawn and
\* classified, an accepted hand is dispatched (test-mode event only), and the
\* for loop moves to the next hand or, after the last, to the display; the
\* display shows the frame, reads the key, and goes back to the loop test
\* unless the key is ESC.
C9_Step ==
    /\ (test_mode /\ pc = "hands") =>
          LET hit == IsMiddleFingerOnlyUp(hands[h])
          IN  /\ events' = events
                           \o <<Ev("draw_landmarks", ToString(h)), Ev("classify", BoolStr(hit))>>
                           \o (IF hit THEN <<CallHandler, PrintEventTest>> ELSE <<>>)
              /\ hands' = hands
              /\ h' = h + 1
              /\ pc' = IF h < Len(hands) THEN "hands" ELSE "show"
    /\ (test_mode /\ pc = "show") =>
          /\ Len(events') >= Len(events) + 2
          /\ events'[Len(events) + 1] = Ev("cv2.imshow", "")
          /\ events'[Len(events) + 2].k = "cv2.waitKey"
          /\ pc' = IF events'[Len(events) + 2] = EscPressed THEN "cleanup" ELSE "loop"

\* The event right before the final release, i.e. why the loop was left.
ExitCause == events[Len(events) - Len(CleanStop)]

\* run() has returned through the common exit and `causes` holds its cause.
StoppedBy(causes) ==
    /\ Len(events) > Len(CleanStop)
    /\ SubSeq(events, Len(events) - Len(CleanStop) + 1, Len(events)) = CleanStop
    /\ ExitCause \in causes

\* C9 as stated: in test mode a detection never stops the loop (the
\* remaining hands are classified in order, each accepted one dispatched,
\* the frame shown, the key checked, the next iteration started), and a
\* test-mode run stops only on a frame-read failure or an escape key.
C9_Original ==
    /\ [](test_mode /\ pc = "done" => StoppedBy({PrintReadError, PrintEsc}))
    /\ [][C9_Step]_vars

\* C9 amended: as above, and a test-mode run stops only on a frame-read
\* failure, an escape key, or the camera answering the loop test
\* (cap.isOpened()) with false.
C9_TestModeDetectionContinues ==
    /\ [](test_mode /\ pc = "done" =>
            StoppedBy({PrintReadError, PrintEsc, Ev("cap.isOpened", "false")}))
    /\ [][C9_Step]_vars

\* Both hands of the first frame were accepted in test mode and the loop has
\* gone on to read a second frame.
C9_Witness ==
    /\ test_mode
    /\ CountKind("hands.process") = 1
    /\ CountOf(CallHandler) = 2
    /\ CountOf(PrintEventTest) = 2
    /\ nframes = 2
    /\ pc = "read"

====
